---- MODULE Spec2Model ----
(***************************************************************************)
(* Nonce challenge / signature response login of authweb3 (views.py).      *)
(* Each client runs one request at a time; requests of different clients   *)
(* interleave at their database accesses, as Django runs every query in    *)
(* autocommit mode and the views open no transaction of their own.         *)
(***************************************************************************)
EXTENDS Integers, Sequences, FiniteSets, TLC

\* ------------------------------------------------------------------ bounds
MaxReq == 3          \* get_nonce and verify_signature requests started in one behaviour

\* Two clients, each with a session of its own.
Clients == {"c1", "c2"}

\* ------------------------------------------------------------ JSON values
\* data.get(key): the key is absent / null, or holds a string (a sequence of
\* characters).
Null == [t |-> "null", v |-> <<>>]
Str(s) == [t |-> "str", v |-> s]

\* (data.get("address") or ""): null and "" both give "".
OrEmpty(x) == IF x.t = "null" THEN <<>> ELSE x.v

LowerChar(c) ==
  CASE c = "A" -> "a"
    [] c = "B" -> "b"
    [] c = "F" -> "f"
    [] OTHER -> c

\* str.lower()
Lower(s) == [i \in DOMAIN s |-> LowerChar(s[i])]

\* An address taken as it was sent.
NormalizeAddressAsSent(x) == OrEmpty(x)

\* address = (data.get("address") or "").lower()
NormalizeAddress(x) == Lower(OrEmpty(x))

\* ------------------------------------------------------------- signatures
Keys == {"kA", "kB"}

\* The checksummed (mixed case) address the recovery primitive reports for
\* the holder of a private key.
KeyAddress(k) == IF k = "kA" THEN <<"x", "A">> ELSE <<"x", "B">>

\* The address recovered when the signature was made over another message:
\* an address unrelated to any account.
Unrelated == <<"x", "F">>

\* The stored nonce of a profile nobody issued a challenge for.
NoNonce == 0

\* message_text = f"Login nonce: {profile.nonce}"; encode_defunct(text=...)
Message(nonce) == <<"Login nonce: ", nonce>>

NoMessage == <<"", NoNonce>>
SigNull == [t |-> "null", k |-> "-", m |-> NoMessage]
SigEmpty == [t |-> "empty", k |-> "-", m |-> NoMessage]
SigMalformed == [t |-> "malformed", k |-> "-", m |-> NoMessage]
Sign(k, msg) == [t |-> "signed", k |-> k, m |-> msg]

\* A test for null alone.
SignatureIsNull(sig) == sig.t = "null"

\* not signature
SignatureMissing(sig) == sig.t \in {"null", "empty"}

\* A primitive that decodes anything.
RecoverNeverRaises(sig) == FALSE

\* recover_message raises on a signature it cannot decode.
RecoverRaises(sig) == sig.t = "malformed"

\* w3.eth.account.recover_message(signable, signature=signature)
RecoverMessage(signable, sig) ==
  IF sig.m = signable THEN KeyAddress(sig.k) ELSE Unrelated

\* The recovered address compared as the primitive returns it.
RecoveredAsReturned(signable, sig) == RecoverMessage(signable, sig)

\* recover_message(...).lower()
Recovered(signable, sig) == Lower(RecoverMessage(signable, sig))

\* ------------------------------------------------------------------ state
VARIABLES
  users,       \* auth_user joined with its profile: rows [username, nonce]
  nextNonce,   \* the next token secrets.token_hex(16) returns
  session,     \* per client: the username the session is logged in as, or <<>>
  req,         \* per client: the request being handled and its local variables
  resp,        \* per client: the response to its last completed request
  reqs,        \* requests started so far
  \* History: it decides no response and no write, and is read only to note
  \* more history (the replay, wasStale and solo fields of a request).
  grants,      \* the granted verifications, in order: [address, sig, nonce, user,
               \* replay, solo, afterFailure, overwrote]; overwrote is the
               \* stored nonce the rotation replaced
  challenge,   \* per address: the nonce the last issue returned, while no other
               \* request for the address has run since it was generated
  rejected,    \* [address, nonce, wasStale]: a verify that had loaded the nonce
               \* ended in a mismatch
  stale,       \* <<address, nonce>>: the nonce was stored and has been overwritten
  created,     \* the usernames get_nonce has inserted
  failed,      \* <<address, nonce>>: a verify that had loaded the nonce ended
               \* because the signature could not be decoded
  issued       \* [address, nonce, concurrent]: get_nonce returned the nonce;
               \* concurrent: another get_nonce for the address was in flight

hist == <<grants, challenge, rejected, stale, created, failed, issued>>
vars == <<users, nextNonce, session, req, resp, reqs, grants, challenge, rejected,
          stale, created, failed, issued>>

NoUser == 0
Anonymous == <<>>

\* No nonce at all: the address has no unanswered challenge.
NoChallenge == NoNonce - 1

\* The local variables of a view, and what the history notes at its start:
\* replay (the same address and signature were granted before), wasStale (the
\* signature is over a nonce overwritten before) and solo (the challenge the
\* request answers, while no other request for the address runs beside it).
Idle == [pc |-> "idle", op |-> "-", addrIn |-> Null, sigIn |-> SigNull,
         address |-> <<>>, user |-> NoUser, nonce |-> NoNonce,
         replay |-> FALSE, wasStale |-> FALSE, solo |-> NoChallenge]

\* A view has returned: its local variables are gone.
Done(op) == [Idle EXCEPT !.op = op]

NoResp == [status |-> 0, error |-> "-", nonce |-> NoNonce, address |-> <<>>]

Response(status, error, nonce, address) ==
  [status |-> status, error |-> error, nonce |-> nonce, address |-> address]

\* Lines 17-23 of get_nonce: the response sent before any query, or NoResp
\* when the request goes on.
GetNonceValidate(method, addrIn) ==
  IF method # "POST" THEN Response(405, "POST required", NoNonce, <<>>)
  ELSE IF NormalizeAddress(addrIn) = <<>>
    THEN Response(400, "Missing address", NoNonce, <<>>)
  ELSE NoResp

\* Lines 35-43 of verify_signature, likewise.
VerifyValidate(method, addrIn, sigIn) ==
  IF method # "POST" THEN Response(405, "POST required", NoNonce, <<>>)
  ELSE IF NormalizeAddress(addrIn) = <<>> \/ SignatureMissing(sigIn)
    THEN Response(400, "Missing address/signature", NoNonce, <<>>)
  ELSE NoResp

\* A generator with two tokens.
TokenHexShort == (nextNonce % 2) + 1

\* secrets.token_hex(16): 128 random bits; a token is never handed out twice.
TokenHex == nextNonce

\* A save that never reaches the database.
SaveNothing(pk, n) == users

\* A lookup that forgets its filter.
MatchingAny(address) == DOMAIN users

\* User.objects.get(username=address): the rows that match.
Matching(address) == {i \in DOMAIN users : users[i].username = address}

\* The nonce of a profile at its creation (the post_save receiver of User).
InitialNonce == NoNonce

\* An insert that does not look at the index.
UsernameNeverTaken(address) == FALSE

\* The unique index on auth_user.username.
UsernameTaken(address) == Matching(address) # {}

\* An UPDATE with no WHERE clause: every profile gets the nonce.
SaveNonceAll(pk, n) == [i \in DOMAIN users |-> [users[i] EXCEPT !.nonce = n]]

\* profile.nonce = ...; profile.save()
SaveNonce(pk, n) == [users EXCEPT ![pk].nonce = n]

\* A check that rotates the nonce whatever the comparison says.
UsersAfterCheckAlways(pk, match) == SaveNonce(pk, TokenHex)

\* Lines 60-68: the nonce is rotated on a match, and only then.
UsersAfterCheck(pk, match) == IF match THEN SaveNonce(pk, TokenHex) ELSE users

\* A handler that rotates the nonce when the signature cannot be decoded.
UsersAfterRecoverErrorRotates(pk) == SaveNonce(pk, TokenHex)

\* Lines 57-58: the handler of the exception returns; nothing is saved.
UsersAfterRecoverError(pk) == users

\* A response that carries the token before the one saved.
IssueResponseStale(n) == Response(200, "-", n - 1, <<>>)

\* Line 31: the response carries the nonce just saved.
IssueResponse(n) == Response(200, "-", n, <<>>)

\* A logout that leaves the session as it is.
LogoutNothing(c) == session

\* logout(request): the session of the client is flushed.
Logout(c) == [session EXCEPT ![c] = Anonymous]

\* login(request, user): the session of the client now belongs to the user.
Login(c, pk) == [session EXCEPT ![c] = users[pk].username]

\* A check that logs the user in whatever the comparison says.
SessionAfterCheckAlways(c, pk, match) == Login(c, pk)

\* Lines 60-68: the user is logged in on a match, and only then.
SessionAfterCheck(c, pk, match) == IF match THEN Login(c, pk) ELSE session

AddressInputs ==
  {Null, Str(<<>>), Str(<<"x", "a">>), Str(<<"x", "A">>), Str(<<"x", "b">>)}

\* An address made of white space alone.
BlankAddressInputs == {Str(<<" ">>)}

Addresses ==
  {NormalizeAddress(a) : a \in AddressInputs \cup BlankAddressInputs} \ {<<>>}

InFlight(c, address) == req[c].pc # "idle" /\ req[c].address = address

\* A request for the address starts at client c: the challenge of the address
\* is no longer unanswered, and no request beside it runs alone.
Disturb(c, r) ==
  [d \in Clients |->
     IF d = c THEN r
     ELSE IF InFlight(d, r.address) THEN [req[d] EXCEPT !.solo = NoChallenge]
     ELSE req[d]]

Overwritten(address, old, new) == IF old = new THEN {} ELSE {<<address, old>>}

SignatureInputs ==
  {SigNull, SigEmpty, SigMalformed}
    \cup {Sign(k, Message(n)) : k \in Keys, n \in 0..(nextNonce - 1)}

TypeOK ==
  /\ nextNonce \in 1..(reqs + 1)
  /\ reqs \in 0..MaxReq
  /\ \A c \in Clients : req[c].pc \in
       {"idle", "issue_get", "issue_create", "issue_save", "verify_get", "verify_check"}

Init ==
  /\ users = <<>>
  /\ nextNonce = 1
  /\ session = [c \in Clients |-> Anonymous]
  /\ req = [c \in Clients |-> Idle]
  /\ resp = [c \in Clients |-> NoResp]
  /\ reqs = 0
  /\ grants = <<>>
  /\ challenge = [a \in Addresses |-> NoChallenge]
  /\ rejected = {}
  /\ stale = {}
  /\ created = {}
  /\ failed = {}
  /\ issued = {}

\* -------------------------------------------------------------- get_nonce
\* Lines 17-23: the method and the address are checked before any query.
GetNonceStart(c, method, addrIn) ==
  /\ req[c].pc = "idle"
  /\ reqs < MaxReq
  /\ reqs' = reqs + 1
  /\ LET address == NormalizeAddress(addrIn)
         early == GetNonceValidate(method, addrIn)
     IN
       IF early # NoResp THEN
         /\ resp' = [resp EXCEPT ![c] = early]
         /\ req' = [req EXCEPT ![c] = Done("issue")]
         /\ UNCHANGED challenge
       ELSE
         /\ resp' = [resp EXCEPT ![c] = NoResp]
         /\ req' = Disturb(c, [Idle EXCEPT !.pc = "issue_get", !.op = "issue",
                                            !.addrIn = addrIn, !.address = address])
         /\ challenge' = [challenge EXCEPT ![address] = NoChallenge]
  /\ UNCHANGED <<users, nextNonce, session, grants, rejected, stale, created, failed,
                  issued>>

\* Line 26, get_or_create, first query: SELECT by username.
GetNonceGet(c) ==
  /\ req[c].pc = "issue_get"
  /\ LET found == Matching(req[c].address) IN
       IF found # {} THEN
         req' = [req EXCEPT ![c].pc = "issue_save",
                            ![c].user = CHOOSE i \in found : \A j \in found : i <= j]
       ELSE
         req' = [req EXCEPT ![c].pc = "issue_create"]
  /\ UNCHANGED <<users, nextNonce, session, resp, reqs, hist>>

\* Line 26, get_or_create, after DoesNotExist: INSERT the user (its profile is
\* created in the same transaction); on IntegrityError SELECT again.
GetNonceCreate(c) ==
  /\ req[c].pc = "issue_create"
  /\ IF UsernameTaken(req[c].address) THEN
       LET found == Matching(req[c].address) IN
         /\ req' = [req EXCEPT ![c].pc = "issue_save",
                               ![c].user = CHOOSE i \in found : \A j \in found : i <= j]
         /\ UNCHANGED <<users, created>>
     ELSE
       /\ users' = Append(users, [username |-> req[c].address, nonce |-> InitialNonce])
       /\ req' = [req EXCEPT ![c].pc = "issue_save", ![c].user = Len(users) + 1]
       /\ created' = created \cup {req[c].address}
  /\ UNCHANGED <<nextNonce, session, resp, reqs, grants, challenge, rejected, stale,
                  failed, issued>>

\* Lines 27-31: the profile gets a fresh token, is saved, and the token is
\* returned.
GetNonceSave(c) ==
  /\ req[c].pc = "issue_save"
  /\ LET n == TokenHex IN
       /\ users' = SaveNonce(req[c].user, n)
       /\ nextNonce' = nextNonce + 1
       /\ resp' = [resp EXCEPT ![c] = IssueResponse(n)]
       /\ req' = [req EXCEPT ![c] = Done("issue")]
       /\ issued' = issued \cup
            {[address |-> req[c].address, nonce |-> resp'[c].nonce,
              concurrent |-> \E d \in Clients \ {c} :
                               req[d].op = "issue" /\ InFlight(d, req[c].address)]}
       /\ stale' = stale \cup Overwritten(req[c].address, users[req[c].user].nonce, n)
       /\ challenge' = [challenge EXCEPT ![req[c].address] =
            IF \E d \in Clients \ {c} : InFlight(d, req[c].address)
              THEN NoChallenge ELSE n]
  /\ UNCHANGED <<session, reqs, grants, rejected, created, failed>>

\* ------------------------------------------------------- verify_signature
\* Lines 35-43.
VerifyStart(c, method, addrIn, sigIn) ==
  /\ req[c].pc = "idle"
  /\ reqs < MaxReq
  /\ reqs' = reqs + 1
  /\ LET address == NormalizeAddress(addrIn)
         r == [Idle EXCEPT !.op = "verify", !.addrIn = addrIn, !.sigIn = sigIn]
         early == VerifyValidate(method, addrIn, sigIn)
     IN
       IF early # NoResp THEN
         /\ resp' = [resp EXCEPT ![c] = early]
         /\ req' = [req EXCEPT ![c] = Done("verify")]
         /\ UNCHANGED challenge
       ELSE
         /\ resp' = [resp EXCEPT ![c] = NoResp]
         /\ req' = Disturb(c, [r EXCEPT
              !.pc = "verify_get", !.address = address,
              !.replay = \E i \in DOMAIN grants :
                           grants[i].address = address /\ grants[i].sig = sigIn,
              !.wasStale = \E n \in 0..nextNonce :
                             <<address, n>> \in stale /\ sigIn.m = Message(n),
              !.solo = IF \E d \in Clients \ {c} : InFlight(d, address)
                         THEN NoChallenge ELSE challenge[address]])
         /\ challenge' = [challenge EXCEPT ![address] = NoChallenge]
  /\ UNCHANGED <<users, nextNonce, session, grants, rejected, stale, created, failed,
                  issued>>

\* Lines 45-50: User.objects.get(username=address), then user.userprofile loads
\* the profile row, its nonce included. The two queries are one step: no row
\* is ever deleted and the first reads nothing that changes.
VerifyGet(c) ==
  /\ req[c].pc = "verify_get"
  /\ LET found == Matching(req[c].address) IN
       IF found = {} THEN
         /\ resp' = [resp EXCEPT ![c] = Response(404, "User not found", NoNonce, <<>>)]
         /\ req' = [req EXCEPT ![c] = Done("verify")]
       ELSE
         LET pk == CHOOSE i \in found : \A j \in found : i <= j IN
           /\ req' = [req EXCEPT ![c].pc = "verify_check", ![c].user = pk,
                                 ![c].nonce = users[pk].nonce]
           /\ UNCHANGED resp
  /\ UNCHANGED <<users, nextNonce, session, reqs, hist>>

\* Lines 51-68: recover the signer over the message built from the nonce that
\* was loaded, compare, and on a match rotate the nonce and log the user in.
VerifyCheck(c) ==
  /\ req[c].pc = "verify_check"
  /\ LET signable == Message(req[c].nonce) IN
       IF RecoverRaises(req[c].sigIn) THEN
         /\ resp' = [resp EXCEPT ![c] = Response(400, "Recover failed", NoNonce, <<>>)]
         /\ req' = [req EXCEPT ![c] = Done("verify")]
         /\ users' = UsersAfterRecoverError(req[c].user)
         /\ failed' = failed \cup {<<req[c].address, req[c].nonce>>}
         /\ UNCHANGED <<nextNonce, session, grants, rejected, stale>>
       ELSE IF Recovered(signable, req[c].sigIn) = req[c].address THEN
         /\ users' = UsersAfterCheck(req[c].user, TRUE)
         /\ nextNonce' = nextNonce + 1
         /\ session' = SessionAfterCheck(c, req[c].user, TRUE)
         /\ resp' = [resp EXCEPT ![c] = Response(200, "-", NoNonce, req[c].address)]
         /\ req' = [req EXCEPT ![c] = Done("verify")]
         /\ grants' = Append(grants,
              [address |-> req[c].address, sig |-> req[c].sigIn, nonce |-> req[c].nonce,
               user |-> req[c].user, replay |-> req[c].replay, solo |-> req[c].solo,
               afterFailure |-> <<req[c].address, req[c].nonce>> \in failed,
               overwrote |-> users[req[c].user].nonce])
         /\ stale' = stale \cup
              Overwritten(req[c].address, users[req[c].user].nonce, TokenHex)
         /\ UNCHANGED <<rejected, failed>>
       ELSE
         /\ users' = UsersAfterCheck(req[c].user, FALSE)
         /\ session' = SessionAfterCheck(c, req[c].user, FALSE)
         /\ resp' = [resp EXCEPT ![c] = Response(401, "Invalid signature", NoNonce, <<>>)]
         /\ req' = [req EXCEPT ![c] = Done("verify")]
         /\ rejected' = rejected \cup
              {[address |-> req[c].address, nonce |-> req[c].nonce,
                wasStale |-> req[c].wasStale]}
         /\ stale' = stale \cup
              Overwritten(req[c].address, users[req[c].user].nonce,
                          users'[req[c].user].nonce)
         /\ UNCHANGED <<nextNonce, grants, failed>>
  /\ UNCHANGED <<reqs, challenge, created, issued>>

\* ------------------------------------------------------ dashboard, logout
\* Lines 70-74: login_required answers only an authenticated session.
Dashboard(c) ==
  /\ req[c].pc = "idle"
  /\ req' = [req EXCEPT ![c] = Done("dashboard")]
  /\ resp' = [resp EXCEPT ![c] =
       IF session[c] # Anonymous
         THEN Response(200, "-", NoNonce, session[c])
         ELSE Response(302, "login", NoNonce, <<>>)]
  /\ UNCHANGED <<users, nextNonce, session, reqs, hist>>

\* Lines 76-78.
LogoutView(c) ==
  /\ req[c].pc = "idle"
  /\ session' = Logout(c)
  /\ req' = [req EXCEPT ![c] = Done("logout")]
  /\ resp' = [resp EXCEPT ![c] = Response(302, "home", NoNonce, <<>>)]
  /\ UNCHANGED <<users, nextNonce, reqs, hist>>

Next ==
  \E c \in Clients :
    \/ \E a \in AddressInputs : GetNonceStart(c, "POST", a)
    \/ GetNonceStart(c, "GET", Null)
    \/ GetNonceGet(c)
    \/ GetNonceCreate(c)
    \/ GetNonceSave(c)
    \/ \E a \in AddressInputs, s \in SignatureInputs : VerifyStart(c, "POST", a, s)
    \/ VerifyStart(c, "GET", Null, SigNull)
    \/ VerifyGet(c)
    \/ VerifyCheck(c)
    \/ Dashboard(c)
    \/ LogoutView(c)

Spec == Init /\ [][Next]_vars

\* The same views, with an address of white space among the inputs.
NextBlank ==
  \/ Next
  \/ \E c \in Clients, a \in BlankAddressInputs : GetNonceStart(c, "POST", a)
  \/ \E c \in Clients, a \in BlankAddressInputs, s \in SignatureInputs :
       VerifyStart(c, "POST", a, s)

SpecBlank == Init /\ [][NextBlank]_vars

\* ================================================================== claims
\* Steps as an observer sees them.
\* The check of a verify_signature request returns its response.
VerifyEnds(c) == req[c].pc = "verify_check" /\ req'[c].pc = "idle"

\* get_nonce returns a nonce.
IssueEnds(c) == req[c].pc = "issue_save" /\ req'[c].pc = "idle"

Granted(c) == resp[c].status = 200 /\ req[c].op = "verify"

\* Letter case, stated without str.lower().
UpperLetters == {"A", "B", "F"}
IsLowercase(s) == \A i \in DOMAIN s : s[i] \notin UpperLetters
CasePairs == {<<"a", "A">>, <<"b", "B">>, <<"f", "F">>}
SameLetter(x, y) == x = y \/ <<x, y>> \in CasePairs \/ <<y, x>> \in CasePairs
SameIgnoringCase(s, t) ==
  /\ Len(s) = Len(t)
  /\ \A i \in DOMAIN s : SameLetter(s[i], t[i])

\* The key whose holder owns the address.
OwnsAddress(k, address) == SameIgnoringCase(KeyAddress(k), address)

\* C1: replay prevention. No verify(A, S) that started after a grant of
\* verify(A, S) had completed is granted, and no nonce value of an identity is
\* granted more than once.
C1_ReplayPrevention ==
  /\ \A i \in DOMAIN grants : ~grants[i].replay
  /\ \A i, j \in DOMAIN grants :
       (grants[i].address = grants[j].address /\ grants[i].nonce = grants[j].nonce)
         => i = j

\* The first half of C1 alone: a replay that starts after the grant completed
\* is never granted.
C1_NoGrantAfterGrant == \A i \in DOMAIN grants : ~grants[i].replay

C1_GrantSeen == grants # <<>>

\* C2: of two concurrent verify requests for the same identity that carry the
\* same signature over the stored nonce, at most one is granted. (A second
\* grant that is no replay started before the first one completed.)
C2_AtMostOneConcurrentGrant ==
  \A i, j \in DOMAIN grants :
    (/\ i < j
     /\ grants[i].address = grants[j].address
     /\ grants[i].sig = grants[j].sig
     /\ grants[i].nonce = grants[j].nonce)
      => grants[j].replay

C2_TwoGrantsSeen == Len(grants) >= 2

\* The signature was made by the owner of the claimed address.
SignedByOwner(c) ==
  /\ req[c].sigIn.t = "signed"
  /\ OwnsAddress(req[c].sigIn.k, OrEmpty(req[c].addrIn))

\* C3: verify is granted exactly when the address recovered from the signature
\* over "Login nonce: " + the stored nonce (the one the request loaded from
\* the record of the claimed address) equals the claimed address, letter case
\* aside; a signature by another key ends in InvalidSignature.
C3_GrantedIffSignerIsClaimant ==
  [][\A c \in Clients :
       /\ (req[c].pc = "verify_get" /\ req'[c].pc = "verify_check")
            => /\ req'[c].nonce = users[req'[c].user].nonce
               /\ SameIgnoringCase(users[req'[c].user].username, OrEmpty(req[c].addrIn))
       /\ (VerifyEnds(c) /\ ~RecoverRaises(req[c].sigIn))
            => /\ resp'[c].status \in {200, 401}
               /\ (resp'[c].status = 200) <=>
                    SameIgnoringCase(RecoverMessage(Message(req[c].nonce), req[c].sigIn),
                                     OrEmpty(req[c].addrIn))
               /\ (req[c].sigIn.t = "signed" /\ ~SignedByOwner(c))
                    => resp'[c] = Response(401, "Invalid signature", NoNonce, <<>>)
    ]_vars

C3_GrantAndMismatchSeen ==
  /\ grants # <<>>
  /\ \E r \in rejected : ~r.wasStale

\* C4: round trip. A verify that answers the nonce N issue returned, signed by
\* the owner, with no other request for the address since N was generated, is
\* granted, echoes the lowercase address and leaves a stored nonce other than
\* N; no later issue for the address returns N.
C4_RoundTrip ==
  [][\A c \in Clients :
       /\ (/\ VerifyEnds(c)
           /\ req[c].solo # NoChallenge
           /\ SignedByOwner(c)
           /\ req[c].sigIn.m = Message(req[c].solo))
            => /\ resp'[c].status = 200
               /\ IsLowercase(resp'[c].address)
               /\ SameIgnoringCase(resp'[c].address, OrEmpty(req[c].addrIn))
               /\ users'[req[c].user].nonce # req[c].solo
       /\ IssueEnds(c)
            => \A i \in DOMAIN grants :
                 (grants[i].address = req[c].address /\ grants[i].solo # NoChallenge)
                   => resp'[c].nonce # grants[i].solo
    ]_vars

C4_RoundTripThenIssueSeen ==
  \E i \in DOMAIN grants, c \in Clients :
    /\ grants[i].solo # NoChallenge
    /\ req[c].op = "issue"
    /\ resp[c].status = 200
    /\ resp[c].nonce > grants[i].solo

\* C5: a verify that ends in a mismatch leaves the stored nonces as they were,
\* and a verify that loads a nonce a mismatch was already reported for, with
\* the owner's signature over that nonce, is still granted.
C5_RejectedIsNotTerminal ==
  [][\A c \in Clients :
       /\ (VerifyEnds(c) /\ resp'[c].status = 401) => users' = users
       /\ (/\ VerifyEnds(c)
           /\ \E r \in rejected : r.address = req[c].address /\ r.nonce = req[c].nonce
           /\ SignedByOwner(c)
           /\ req[c].sigIn.m = Message(req[c].nonce))
            => resp'[c].status = 200
    ]_vars

C5_GrantAfterRejectSeen ==
  \E i \in DOMAIN grants, r \in rejected :
    r.address = grants[i].address /\ r.nonce = grants[i].nonce

\* C6: one live nonce per identity. The stored nonce is never one that was
\* overwritten, and a verify whose signature is over a nonce overwritten
\* before the verify started ends in InvalidSignature and changes no nonce.
C6_OneLiveNonce ==
  /\ [](\A i \in DOMAIN users : <<users[i].username, users[i].nonce>> \notin stale)
  /\ [][\A c \in Clients :
         (VerifyEnds(c) /\ req[c].wasStale)
           => /\ resp'[c] = Response(401, "Invalid signature", NoNonce, <<>>)
              /\ users' = users
      ]_vars

C6_StaleRejectedSeen ==
  \E r \in rejected : r.wasStale /\ r.nonce # NoNonce

\* C7: the store holds at most one record per normalized address, and an
\* issue works on the record of its address, whoever created it.
C7_OneRecordPerAddress ==
  /\ \A i, j \in DOMAIN users :
       SameIgnoringCase(users[i].username, users[j].username) => i = j
  /\ \A c \in Clients :
       req[c].pc = "issue_save" => users[req[c].user].username = req[c].address

\* One issue is past its failed SELECT while another holds the record.
C7_ConcurrentCreateSeen ==
  \E c, d \in Clients :
    /\ req[c].pc = "issue_create"
    /\ req[d].pc = "issue_save"
    /\ req[d].address = req[c].address
    /\ users[req[d].user].username = req[c].address

\* C8: every stored address is lowercase, a request works on the record whose
\* address is the one it was sent, letter case aside, and requests for
\* addresses that differ only in case work on the same record.
C8_CaseInsensitive ==
  /\ \A i \in DOMAIN users : IsLowercase(users[i].username)
  /\ \A c \in Clients :
       req[c].user # NoUser
         => SameIgnoringCase(users[req[c].user].username, OrEmpty(req[c].addrIn))
  /\ \A c, d \in Clients :
       (/\ req[c].user # NoUser
        /\ req[d].user # NoUser
        /\ SameIgnoringCase(OrEmpty(req[c].addrIn), OrEmpty(req[d].addrIn)))
         => req[c].user = req[d].user

C8_MixedCaseSeen ==
  \E c, d \in Clients :
    /\ req[c].op = "issue" /\ req[c].user # NoUser
    /\ req[d].op = "verify" /\ req[d].user # NoUser
    /\ req[c].addrIn # req[d].addrIn
    /\ ~IsLowercase(OrEmpty(req[c].addrIn))
    /\ req[c].user = req[d].user

\* C9: a verify for an address no issue has created a record for ends in
\* UnknownIdentity, is not granted, and creates no record.
C9_UnknownIdentity ==
  /\ [](\A i \in DOMAIN users : users[i].username \in created)
  /\ [](\A i \in DOMAIN grants : grants[i].address \in created)
  /\ [][\A c \in Clients :
         (/\ req[c].pc = "verify_get"
          /\ req'[c] # req[c]
          /\ req[c].address \notin created)
           => /\ resp'[c] = Response(404, "User not found", NoNonce, <<>>)
              /\ req'[c].pc = "idle"
              /\ users' = users
      ]_vars

C9_NotFoundSeen ==
  \E c \in Clients : resp[c].status = 404 /\ users # <<>>

\* C10: an empty or missing address sent to get_nonce or verify_signature,
\* and an empty or missing signature sent to verify_signature, is answered
\* with InvalidInput before any query, and the step that answers so leaves
\* the store and the sessions as they were and ends the request.
EmptyAddresses == {Null, Str(<<>>)}
MissingSignatures == {SigNull, SigEmpty}
InvalidInputAddress == Response(400, "Missing address", NoNonce, <<>>)
InvalidInputVerify == Response(400, "Missing address/signature", NoNonce, <<>>)

C10_InvalidInput ==
  /\ [](/\ \A a \in EmptyAddresses : GetNonceValidate("POST", a) = InvalidInputAddress
        /\ \A a \in EmptyAddresses, s \in SignatureInputs :
             VerifyValidate("POST", a, s) = InvalidInputVerify
        /\ \A a \in AddressInputs, s \in MissingSignatures :
             VerifyValidate("POST", a, s) = InvalidInputVerify)
  /\ [][\A c \in Clients :
         (/\ req[c].pc = "idle"
          /\ reqs' # reqs
          /\ resp'[c] \in {InvalidInputAddress, InvalidInputVerify}
          /\ \A d \in Clients \ {c} : req'[d] = req[d] /\ resp'[d] = resp[d])
           => /\ req'[c].pc = "idle"
              /\ UNCHANGED <<users, session, nextNonce>>
      ]_vars

C10_InvalidInputSeen ==
  \E c, d \in Clients :
    /\ resp[c].error = "Missing address"
    /\ resp[d].error = "Missing address/signature"
    /\ users # <<>>

\* A string that is empty once trimmed.
IsBlank(s) == \A i \in DOMAIN s : s[i] = " "

\* C11: issue fails with InvalidInput for an address that is empty after
\* trimming, so no request for an address of white space alone gets past the
\* validation and no identity record is ever created for one.
C11_BlankAddressRejected ==
  \A i \in DOMAIN users : ~IsBlank(users[i].username)

\* C12: a session is established only by the step that grants a verify, for
\* the claimed address, which is the address recovered from the signature;
\* no step of an issue and no verify that ends otherwise changes a session.
C12_SessionOnlyByGrant ==
  [][\A c \in Clients :
       /\ (session'[c] # session[c] /\ session'[c] # Anonymous)
            => /\ VerifyEnds(c)
               /\ resp'[c].status = 200
               /\ SameIgnoringCase(session'[c], OrEmpty(req[c].addrIn))
               /\ SameIgnoringCase(
                    RecoverMessage(Message(req[c].nonce), req[c].sigIn), session'[c])
       /\ (req'[c] # req[c] /\ req'[c].op = "issue") => session' = session
       /\ (req'[c] # req[c] /\ req'[c].op = "verify" /\ resp'[c].status # 200)
            => session' = session
    ]_vars

C12_SessionAndRefusalSeen ==
  \E c, d \in Clients :
    /\ session[c] # Anonymous
    /\ req[d].op = "verify"
    /\ resp[d].status \in {400, 401, 404}

\* The record of the claimed address exists.
Known(addrIn) ==
  \E i \in DOMAIN users : SameIgnoringCase(users[i].username, OrEmpty(addrIn))

\* The signature recovers to the claimed address over the nonce loaded.
SignerIsClaimant(c) ==
  /\ SignedByOwner(c)
  /\ req[c].sigIn.m = <<"Login nonce: ", req[c].nonce>>

\* One signature of each kind the validation can tell apart.
SignatureKinds ==
  {SigNull, SigEmpty, SigMalformed, Sign("kA", <<"Login nonce: ", nextNonce - 1>>)}

\* C13: every POST to verify ends in exactly one outcome, in this order of
\* precedence: a missing address or signature gives 400; otherwise an unknown
\* address gives 404; otherwise a signature the primitive cannot decode gives
\* 400 with the reason; otherwise a mismatch gives 401; otherwise 200 with the
\* lowercased address.
C13_VerifyOutcomePrecedence ==
  /\ [](\A a \in AddressInputs, s \in SignatureKinds :
          VerifyValidate("POST", a, s) =
            IF a \in EmptyAddresses \/ s \in MissingSignatures
              THEN Response(400, "Missing address/signature", NoNonce, <<>>)
              ELSE NoResp)
  /\ [](\A c \in Clients :
          req[c].pc \in {"verify_get", "verify_check"}
            => /\ req[c].addrIn \notin EmptyAddresses
               /\ req[c].sigIn \notin MissingSignatures)
  /\ [][\A c \in Clients :
          /\ (req[c].pc = "verify_get" /\ req'[c].pc # req[c].pc)
               => IF ~Known(req[c].addrIn)
                    THEN /\ req'[c].pc = "idle"
                         /\ resp'[c] = Response(404, "User not found", NoNonce, <<>>)
                    ELSE /\ req'[c].pc = "verify_check"
                         /\ resp'[c] = NoResp
          /\ (req[c].pc = "verify_check" /\ req'[c].pc # req[c].pc)
               => /\ req'[c].pc = "idle"
                  /\ resp'[c] =
                       IF req[c].sigIn = SigMalformed
                         THEN Response(400, "Recover failed", NoNonce, <<>>)
                       ELSE IF ~SignerIsClaimant(c)
                         THEN Response(401, "Invalid signature", NoNonce, <<>>)
                       ELSE Response(200, "-", NoNonce, req[c].address)
                  /\ IsLowercase(req[c].address)
                  /\ SameIgnoringCase(req[c].address, OrEmpty(req[c].addrIn))
     ]_vars

C13_NotFoundAndRecoverFailedSeen ==
  \E c, d \in Clients :
    /\ req[c].op = "verify" /\ resp[c].status = 404
    /\ req[d].op = "verify" /\ resp[d].error = "Recover failed"

\* C14: when the primitive cannot decode the signature, verify answers
\* RecoveryFailure (400 with the reason, never 401), grants nothing, logs
\* nobody in and writes nothing; a later verify that loads the same nonce with
\* the owner's signature over it is granted.
C14_RecoveryFailure ==
  /\ [](\A i \in DOMAIN grants : grants[i].sig # SigMalformed)
  /\ [][\A c \in Clients :
          /\ (VerifyEnds(c) /\ req[c].sigIn = SigMalformed)
               => /\ resp'[c] = Response(400, "Recover failed", NoNonce, <<>>)
                  /\ users' = users
                  /\ session' = session
                  /\ grants' = grants
          /\ (/\ VerifyEnds(c)
              /\ <<req[c].address, req[c].nonce>> \in failed
              /\ SignerIsClaimant(c))
               => /\ resp'[c].status = 200
                  /\ Len(grants') = Len(grants) + 1
     ]_vars

C14_GrantAfterFailureSeen == \E i \in DOMAIN grants : grants[i].afterFailure

\* get_nonce has returned the nonce for the address.
Issued(address, nonce) ==
  \E e \in issued : e.address = address /\ e.nonce = nonce

\* C15: a granted verify rotates only the nonce it verified against: the
\* stored nonce its rotation replaces is never a nonce that an issue for the
\* address returned after the verify had loaded an earlier one. (Stated for
\* the grants checked against a nonce that an issue had returned.)
C15_RotationKeepsLaterIssue ==
  \A i \in DOMAIN grants :
    (/\ Issued(grants[i].address, grants[i].nonce)
     /\ grants[i].overwrote # grants[i].nonce)
      => ~Issued(grants[i].address, grants[i].overwrote)

\* The last request of the client was an issue that returned a nonce for the
\* address.
IssueReturned(c, address) ==
  /\ req[c].pc = "idle"
  /\ req[c].op = "issue"
  /\ resp[c].status = 200
  /\ Issued(address, resp[c].nonce)

RecordsOf(address) == {i \in DOMAIN users : users[i].username = address}

\* C16: once two issue calls for the same address have both completed,
\* whatever their interleaving, exactly one record exists for the address and
\* its stored nonce is the nonce returned to one of the two callers, never a
\* third value and never absent.
C16_TwoIssuesOneNonce ==
  \A a \in Addresses : \A c, d \in Clients :
    (c # d /\ IssueReturned(c, a) /\ IssueReturned(d, a))
      => /\ Cardinality(RecordsOf(a)) = 1
         /\ \A i \in RecordsOf(a) :
              /\ users[i].nonce \in {resp[c].nonce, resp[d].nonce}
              /\ users[i].nonce # NoNonce

C16_ConcurrentIssuesCompletedSeen ==
  \E a \in Addresses : \E c, d \in Clients :
    /\ c # d /\ IssueReturned(c, a) /\ IssueReturned(d, a)
    /\ \E e \in issued :
         e.address = a /\ e.nonce = resp[c].nonce /\ e.concurrent

\* The records a step creates or changes.
Touched ==
  {i \in DOMAIN users' : i \notin DOMAIN users \/ users'[i] # users[i]}

\* C17: a step of an issue or verify call creates or changes at most one
\* record, the record of the address the call names; no record is removed,
\* no address is rewritten, and the records of all other addresses keep their
\* nonce.
C17_OnlyTheNamedRecord ==
  [][/\ Len(users') \in {Len(users), Len(users) + 1}
     /\ \A i \in DOMAIN users : users'[i].username = users[i].username
     /\ Cardinality(Touched) <= 1
     /\ \A i \in Touched :
          \E c \in Clients :
            /\ req'[c].pc # req[c].pc
            /\ req[c].op \in {"issue", "verify"}
            /\ SameIgnoringCase(users'[i].username, OrEmpty(req[c].addrIn))
    ]_vars

C17_OtherRecordKeptSeen ==
  \E i, j \in DOMAIN users :
    /\ users[i].username # users[j].username
    /\ users[i].nonce # NoNonce
    /\ users[j].nonce # NoNonce
    /\ \E g \in DOMAIN grants : grants[g].user = i

\* C18: the dashboard answers with the authenticated message exactly when
\* the session of the client is authenticated, and is refused otherwise; a
\* session becomes authenticated only by a granted verify of its client, every
\* granted verify authenticates it, and it stays so until the client logs
\* out, after which it is anonymous.
C18_SessionGatesDashboard ==
  /\ [](\A c \in Clients :
          req[c].op = "dashboard"
            => resp[c] = IF session[c] # Anonymous
                           THEN Response(200, "-", NoNonce, session[c])
                           ELSE Response(302, "login", NoNonce, <<>>))
  /\ [](\A c \in Clients : req[c].op = "logout" => session[c] = Anonymous)
  /\ [][\A c \in Clients :
          /\ (session[c] = Anonymous /\ session'[c] # Anonymous)
               => VerifyEnds(c) /\ resp'[c].status = 200
          /\ (VerifyEnds(c) /\ resp'[c].status = 200) => session'[c] # Anonymous
          /\ (session[c] # Anonymous /\ session'[c] = Anonymous)
               => req'[c].op = "logout"
     ]_vars

\* One client alone has been granted, has logged out, and its dashboard was
\* refused.
C18_RefusedAfterLogoutSeen ==
  \E c \in Clients :
    /\ req[c].op = "dashboard"
    /\ resp[c].status = 302
    /\ grants # <<>>
    /\ \A d \in Clients \ {c} : req[d] = Idle /\ resp[d] = NoResp

\* C19: verify is never granted against an absent nonce: no grant was checked
\* against the nonce of a record on which no nonce had yet been stored.
C19_NoGrantAgainstAbsentNonce ==
  \A i \in DOMAIN grants : grants[i].nonce # NoNonce

====
